---------------------------- MODULE Spec2Model ----------------------------
(***************************************************************************)
(* A model of embedded-midi's byte-by-byte MIDI parser (src/parser.rs) and *)
(* of the value types of src/midi.rs.                                      *)
(*                                                                         *)
(* The parser is one mutable field, `state`, and one operation,            *)
(* parse_byte(byte) -> Option<MidiEvent>.  The model keeps the field, the  *)
(* operation's last argument and result, and a few history variables that  *)
(* record what has been fed since the most recent recognized status byte.  *)
(***************************************************************************)
EXTENDS Integers, Sequences, FiniteSets

VARIABLES
    state,          \* MidiParser.state (parser.rs:4)
    ret,            \* what the last parse_byte call returned: None or Some(event)
    byte,           \* the argument of the last parse_byte call
    prev,           \* MidiParser.state before the last parse_byte call
    stream,         \* history: the bytes fed since (and including) the most
                    \* recent recognized status byte, unrecognized status
                    \* bytes left out; before any such byte, all data bytes fed
    events,         \* history: the events returned since that status byte
    status_first,   \* history: that status byte was the first byte ever fed
    interrupted,    \* history: that status byte arrived while the second data
                    \* byte of a message was awaited
    noisy,          \* history: an unrecognized status byte was fed since then
    noise_mid,      \* history: ... while a second data byte was awaited
    shadow,         \* a second parser, fed `stream` only (no unrecognized bytes)
    shadow_events,  \* the events the second parser returned since that status byte
    fresh,          \* a third parser, constructed anew just before the most
                    \* recent recognized status byte and fed every byte since
    fresh_events,   \* the events the third parser returned
    raw,            \* value types (midi.rs): the byte a value was made from
    wrapped,        \* value types: the value made by From<u8>
    unwrapped,      \* value types: the byte Into<u8> gave back
    f_byte,         \* free functions (parser.rs): the byte one was applied to
    f_result,       \* free functions: the function applied and what it gave
    m_state,        \* midi.rs: MidiParser.state (midi.rs:82)
    m_ret,          \* midi.rs: what the last parse_byte call returned
    m_byte,         \* midi.rs: the argument of the last parse_byte call
    m_prev,         \* midi.rs: MidiParser.state before the last call
    m_prev_ret,     \* midi.rs: what the call before the last one returned
    m_msg           \* midi.rs history: the bytes consumed since the call after
                    \* the last returned event (bytes ignored while Empty
                    \* left out)

vars == <<state, ret, byte, prev, stream, events, status_first, interrupted,
          noisy, noise_mid, shadow, shadow_events, fresh, fresh_events, raw, wrapped, unwrapped,
          f_byte, f_result, m_state, m_ret, m_byte, m_prev, m_prev_ret, m_msg>>

parser_vars == <<state, ret, byte, prev, stream, events, status_first,
                 interrupted, noisy, noise_mid, shadow, shadow_events, fresh,
                 fresh_events>>

value_vars == <<raw, wrapped, unwrapped>>

midi_vars == <<m_state, m_ret, m_byte, m_prev, m_prev_ret, m_msg>>

function_vars == <<f_byte, f_result>>

-----------------------------------------------------------------------------
(* Bounds and input sets *)

\* The largest number of data bytes fed after one recognized status byte
\* (or before the first one).
MaxRun == 4

U8 == 0 .. 255

\* The channels, data bytes and status bytes the model feeds.  Every status
\* high nibble 0x8 .. 0xF is fed, on the lowest and on the highest
\* channel; the data bytes are the lowest, the pitch-bend centre byte 0x40
\* and the highest.
Channels == {0, 15}

DataBytes == {0, 64, 127}

StatusBytes == {hi * 16 + c : hi \in 8 .. 15, c \in Channels}

Bytes == StatusBytes \cup DataBytes

-----------------------------------------------------------------------------
(* u8 arithmetic *)

\* Bit i of the u8 value a.
Bit(a, i) == (a \div (2 ^ i)) % 2

\* a & b on u8 values: bit i of the result is set when it is set in both.
BitAnd(a, b) ==
      Bit(a, 0) * Bit(b, 0)
    + Bit(a, 1) * Bit(b, 1) * 2
    + Bit(a, 2) * Bit(b, 2) * 4
    + Bit(a, 3) * Bit(b, 3) * 8
    + Bit(a, 4) * Bit(b, 4) * 16
    + Bit(a, 5) * Bit(b, 5) * 32
    + Bit(a, 6) * Bit(b, 6) * 64
    + Bit(a, 7) * Bit(b, 7) * 128

-----------------------------------------------------------------------------
(* Option<T> *)

None == << >>

Some(e) == << e >>

-----------------------------------------------------------------------------
(* Value types *)

\* midi.rs: pub struct Note(u8), From<u8> and Into<u8>.
Note_from(note) == [newtype |-> "Note", f0 |-> note]

Note_into(self) == self.f0

\* midi.rs: pub struct Channel(u8), From<u8> and Into<u8>.
\* (a From<u8> that keeps only the low nibble)
Channel_from_masked(channel) == [newtype |-> "Channel", f0 |-> channel % 16]

Channel_from(channel) == [newtype |-> "Channel", f0 |-> channel]

Channel_into(self) == self.f0

\* midi.rs: pub struct Velocity(u8), From<u8> and Into<u8>.
Velocity_from(velocity) == [newtype |-> "Velocity", f0 |-> velocity]

Velocity_into(self) == self.f0

\* The value types of the events that midi.rs does not define: the control
\* and program identifiers and the 7-bit value are wrappers of one byte, the
\* pitch-bend value is the 14-bit integer made of two 7-bit data bytes, the
\* first the least-significant 7 bits.
Control_from(control) == [newtype |-> "Control", f0 |-> control]

Program_from(program) == [newtype |-> "Program", f0 |-> program]

Value_from(value) == [newtype |-> "Value", f0 |-> value]

PitchBendValue_from(byte1, byte2) ==
    [newtype |-> "PitchBendValue", f0 |-> byte1 + 128 * byte2]

-----------------------------------------------------------------------------
(* MidiEvent *)

NoteOn(channel, note, velocity) ==
    [type |-> "NoteOn", channel |-> channel, note |-> note, velocity |-> velocity]

NoteOff(channel, note, velocity) ==
    [type |-> "NoteOff", channel |-> channel, note |-> note, velocity |-> velocity]

ControlChange(channel, control, value) ==
    [type |-> "ControlChange", channel |-> channel, control |-> control, value |-> value]

ProgramChange(channel, program) ==
    [type |-> "ProgramChange", channel |-> channel, program |-> program]

ChannelPressure(channel, value) ==
    [type |-> "ChannelPressure", channel |-> channel, value |-> value]

PitchBend(channel, value) ==
    [type |-> "PitchBend", channel |-> channel, value |-> value]

-----------------------------------------------------------------------------
(* MidiParserState (parser.rs:7-24) *)

Idle == [tag |-> "Idle"]

NoteOnRecvd(channel) == [tag |-> "NoteOnRecvd", channel |-> channel]

NoteOnNoteRecvd(channel, note) ==
    [tag |-> "NoteOnNoteRecvd", channel |-> channel, note |-> note]

NoteOffRecvd(channel) == [tag |-> "NoteOffRecvd", channel |-> channel]

NoteOffNoteRecvd(channel, note) ==
    [tag |-> "NoteOffNoteRecvd", channel |-> channel, note |-> note]

ControlChangeRecvd(channel) == [tag |-> "ControlChangeRecvd", channel |-> channel]

ControlChangeControlRecvd(channel, control) ==
    [tag |-> "ControlChangeControlRecvd", channel |-> channel, control |-> control]

ProgramChangeRecvd(channel) == [tag |-> "ProgramChangeRecvd", channel |-> channel]

ChannelPressureRecvd(channel) == [tag |-> "ChannelPressureRecvd", channel |-> channel]

PitchBendRecvd(channel) == [tag |-> "PitchBendRecvd", channel |-> channel]

PitchBendFirstByteRecvd(channel, byte1) ==
    [tag |-> "PitchBendFirstByteRecvd", channel |-> channel, byte1 |-> byte1]

-----------------------------------------------------------------------------
(* parser.rs: the free functions *)

\* (an is_status_byte that tests bit 6, mask 0x40)
is_status_byte_bit6(b) == BitAnd(b, 64) = 64

\* (an is_status_byte that tests the two top bits, mask 0xC0)
is_status_byte_two_bits(b) == BitAnd(b, 192) = 192

\* fn is_status_byte(byte: u8) -> bool { byte & 0x80 == 0x80 }
is_status_byte(b) == BitAnd(b, 128) = 128

\* (a split_message_and_channel that shifts the high nibble down)
split_message_and_channel_shifted(b) == << BitAnd(b, 240) \div 16, BitAnd(b, 15) >>

\* fn split_message_and_channel(byte: u8) -> (u8, u8)
\*     { (byte & 0xf0u8, byte & 0x0fu8) }
split_message_and_channel(b) == << BitAnd(b, 240), BitAnd(b, 15) >>

-----------------------------------------------------------------------------
(* parser.rs: MidiParser::parse_byte, one operator per match arm.  Each gives *)
(* the new value of self.state and the value returned.                       *)

Step(new_state, returned) == [state |-> new_state, ret |-> returned]

\* (a status-byte branch whose `_` arm resets the parser to Idle)
on_status_resetting(st, b) ==
    LET message == split_message_and_channel(b)[1]
        channel == split_message_and_channel(b)[2]
    IN  CASE message = 128 -> Step(NoteOffRecvd(channel), None)
          [] message = 144 -> Step(NoteOnRecvd(channel), None)
          [] message = 176 -> Step(ControlChangeRecvd(channel), None)
          [] message = 192 -> Step(ProgramChangeRecvd(channel), None)
          [] message = 208 -> Step(ChannelPressureRecvd(channel), None)
          [] message = 224 -> Step(PitchBendRecvd(channel), None)
          [] OTHER -> Step(Idle, None)

\* (a status-byte branch whose `_` arm drops the first data byte received)
on_status_dropping(st, b) ==
    LET message == split_message_and_channel(b)[1]
        channel == split_message_and_channel(b)[2]
    IN  CASE message = 128 -> Step(NoteOffRecvd(channel), None)
          [] message = 144 -> Step(NoteOnRecvd(channel), None)
          [] message = 176 -> Step(ControlChangeRecvd(channel), None)
          [] message = 192 -> Step(ProgramChangeRecvd(channel), None)
          [] message = 208 -> Step(ChannelPressureRecvd(channel), None)
          [] message = 224 -> Step(PitchBendRecvd(channel), None)
          [] OTHER ->
                CASE st.tag = "NoteOnNoteRecvd" -> Step(NoteOnRecvd(st.channel), None)
                  [] st.tag = "NoteOffNoteRecvd" -> Step(NoteOffRecvd(st.channel), None)
                  [] st.tag = "ControlChangeControlRecvd" ->
                        Step(ControlChangeRecvd(st.channel), None)
                  [] st.tag = "PitchBendFirstByteRecvd" ->
                        Step(PitchBendRecvd(st.channel), None)
                  [] OTHER -> Step(st, None)

\* (a status-byte branch that keeps the first data byte of an interrupted
\* NoteOn for the NoteOff that interrupts it, and the other way round)
on_status_keeping(st, b) ==
    LET message == split_message_and_channel(b)[1]
        channel == split_message_and_channel(b)[2]
    IN  CASE message = 128 ->
                IF st.tag = "NoteOnNoteRecvd"
                THEN Step(NoteOffNoteRecvd(channel, st.note), None)
                ELSE Step(NoteOffRecvd(channel), None)
          [] message = 144 ->
                IF st.tag = "NoteOffNoteRecvd"
                THEN Step(NoteOnNoteRecvd(channel, st.note), None)
                ELSE Step(NoteOnRecvd(channel), None)
          [] message = 176 -> Step(ControlChangeRecvd(channel), None)
          [] message = 192 -> Step(ProgramChangeRecvd(channel), None)
          [] message = 208 -> Step(ChannelPressureRecvd(channel), None)
          [] message = 224 -> Step(PitchBendRecvd(channel), None)
          [] OTHER -> Step(st, None)

\* (a status-byte branch that lets a message whose first data byte has been
\* received finish: the status byte is dropped)
on_status_late(st, b) ==
    LET message == split_message_and_channel(b)[1]
        channel == split_message_and_channel(b)[2]
    IN  IF st.tag \in {"NoteOnNoteRecvd", "NoteOffNoteRecvd",
                       "ControlChangeControlRecvd", "PitchBendFirstByteRecvd"}
        THEN Step(st, None)
        ELSE CASE message = 128 -> Step(NoteOffRecvd(channel), None)
               [] message = 144 -> Step(NoteOnRecvd(channel), None)
               [] message = 176 -> Step(ControlChangeRecvd(channel), None)
               [] message = 192 -> Step(ProgramChangeRecvd(channel), None)
               [] message = 208 -> Step(ChannelPressureRecvd(channel), None)
               [] message = 224 -> Step(PitchBendRecvd(channel), None)
               [] OTHER -> Step(st, None)

\* The status-byte branch (parser.rs:47-75): st is self.state.
on_status(st, b) ==
    LET message == split_message_and_channel(b)[1]
        channel == split_message_and_channel(b)[2]
    IN  CASE message = 128 -> Step(NoteOffRecvd(channel), None)
          [] message = 144 -> Step(NoteOnRecvd(channel), None)
          [] message = 176 -> Step(ControlChangeRecvd(channel), None)
          [] message = 192 -> Step(ProgramChangeRecvd(channel), None)
          [] message = 208 -> Step(ChannelPressureRecvd(channel), None)
          [] message = 224 -> Step(PitchBendRecvd(channel), None)
          [] OTHER -> Step(st, None)

\* (a NoteOnRecvd arm that returns a NoteOn at once, with velocity 0)
on_NoteOnRecvd_eager(channel, b) ==
    Step(NoteOnRecvd(channel),
         Some(NoteOn(Channel_from(channel), Note_from(b), Velocity_from(0))))

\* NoteOnRecvd { channel } (parser.rs:78-84)
on_NoteOnRecvd(channel, b) == Step(NoteOnNoteRecvd(channel, b), None)

\* (a NoteOnNoteRecvd arm with note and velocity exchanged)
on_NoteOnNoteRecvd_swapped(channel, note, b) ==
    Step(NoteOnRecvd(channel),
         Some(NoteOn(Channel_from(channel), Note_from(b), Velocity_from(note))))

\* (a NoteOnNoteRecvd arm that returns the event of the NoteOff arm)
on_NoteOnNoteRecvd_as_off(channel, note, b) ==
    Step(NoteOnRecvd(channel),
         Some(NoteOff(Channel_from(channel), Note_from(note), Velocity_from(b))))

\* NoteOnNoteRecvd { channel, note } (parser.rs:85-92)
on_NoteOnNoteRecvd(channel, note, b) ==
    Step(NoteOnRecvd(channel),
         Some(NoteOn(Channel_from(channel), Note_from(note), Velocity_from(b))))

\* NoteOffRecvd { channel } (parser.rs:94-100)
on_NoteOffRecvd(channel, b) == Step(NoteOffNoteRecvd(channel, b), None)

\* (a NoteOffNoteRecvd arm that goes back to Idle: no running status)
on_NoteOffNoteRecvd_to_idle(channel, note, b) ==
    Step(Idle,
         Some(NoteOff(Channel_from(channel), Note_from(note), Velocity_from(b))))

\* NoteOffNoteRecvd { channel, note } (parser.rs:101-108)
on_NoteOffNoteRecvd(channel, note, b) ==
    Step(NoteOffRecvd(channel),
         Some(NoteOff(Channel_from(channel), Note_from(note), Velocity_from(b))))

\* ControlChangeRecvd { channel } (parser.rs:110-116)
on_ControlChangeRecvd(channel, b) ==
    Step(ControlChangeControlRecvd(channel, b), None)

\* ControlChangeControlRecvd { channel, control } (parser.rs:117-124)
on_ControlChangeControlRecvd(channel, control, b) ==
    Step(ControlChangeRecvd(channel),
         Some(ControlChange(Channel_from(channel), Control_from(control),
                            Value_from(b))))

\* (a ProgramChangeRecvd arm that goes back to Idle: no running status)
on_ProgramChangeRecvd_to_idle(st, channel, b) ==
    Step(Idle, Some(ProgramChange(Channel_from(channel), Program_from(b))))

\* ProgramChangeRecvd { channel } (parser.rs:126-129): self.state is not assigned.
on_ProgramChangeRecvd(st, channel, b) ==
    Step(st, Some(ProgramChange(Channel_from(channel), Program_from(b))))

\* (a ChannelPressureRecvd arm that goes back to Idle once its event is made)
on_ChannelPressureRecvd_to_idle(st, channel, b) ==
    Step(Idle, Some(ChannelPressure(Channel_from(channel), Value_from(b))))

\* ChannelPressureRecvd { channel } (parser.rs:131-136): self.state is not assigned.
on_ChannelPressureRecvd(st, channel, b) ==
    Step(st, Some(ChannelPressure(Channel_from(channel), Value_from(b))))

\* PitchBendRecvd { channel } (parser.rs:138-144)
on_PitchBendRecvd(channel, b) == Step(PitchBendFirstByteRecvd(channel, b), None)

\* (a PitchBendFirstByteRecvd arm that passes (byte, byte1))
on_PitchBendFirstByteRecvd_swapped(channel, byte1, b) ==
    Step(PitchBendRecvd(channel),
         Some(PitchBend(Channel_from(channel), PitchBendValue_from(b, byte1))))

\* PitchBendFirstByteRecvd { channel, byte1 } (parser.rs:145-151)
on_PitchBendFirstByteRecvd(channel, byte1, b) ==
    Step(PitchBendRecvd(channel),
         Some(PitchBend(Channel_from(channel), PitchBendValue_from(byte1, b))))

\* (a `_` arm that starts a NoteOn on channel 0 with the stray data byte)
on_other_defaulting(st, b) == Step(NoteOnNoteRecvd(0, b), None)

\* `_ => None` (parser.rs:152), the arm of Idle: self.state is not assigned.
on_other(st, b) == Step(st, None)

\* The data-byte branch (parser.rs:77-153): match self.state.
on_data(st, b) ==
    CASE st.tag = "NoteOnRecvd" -> on_NoteOnRecvd(st.channel, b)
      [] st.tag = "NoteOnNoteRecvd" -> on_NoteOnNoteRecvd(st.channel, st.note, b)
      [] st.tag = "NoteOffRecvd" -> on_NoteOffRecvd(st.channel, b)
      [] st.tag = "NoteOffNoteRecvd" -> on_NoteOffNoteRecvd(st.channel, st.note, b)
      [] st.tag = "ControlChangeRecvd" -> on_ControlChangeRecvd(st.channel, b)
      [] st.tag = "ControlChangeControlRecvd" ->
            on_ControlChangeControlRecvd(st.channel, st.control, b)
      [] st.tag = "ProgramChangeRecvd" -> on_ProgramChangeRecvd(st, st.channel, b)
      [] st.tag = "ChannelPressureRecvd" -> on_ChannelPressureRecvd(st, st.channel, b)
      [] st.tag = "PitchBendRecvd" -> on_PitchBendRecvd(st.channel, b)
      [] st.tag = "PitchBendFirstByteRecvd" ->
            on_PitchBendFirstByteRecvd(st.channel, st.byte1, b)
      [] OTHER -> on_other(st, b)

\* pub fn parse_byte(&mut self, byte: u8) -> Option<MidiEvent> (parser.rs:45-155)
parse_byte(st, b) ==
    IF is_status_byte(b) THEN on_status(st, b) ELSE on_data(st, b)

-----------------------------------------------------------------------------
(* midi.rs: the earlier MidiParser, which decodes NoteOn and NoteOff only *)

\* MidiParserState::Empty (midi.rs:86); the other four states have the names
\* and fields of those of parser.rs.
Empty == [tag |-> "Empty"]

\* MidiEvent::note_on (midi.rs:19-25)
note_on(channel, note, velocity) == NoteOn(channel, note, velocity)

\* MidiEvent::note_off (midi.rs:27-33)
note_off(channel, note, velocity) == NoteOff(channel, note, velocity)

\* MidiParser::parse_byte (midi.rs:105-150): match self.state.
midi_parse_byte(st, b) ==
    CASE st.tag = "Empty" ->
            LET message == BitAnd(b, 240)
                channel == BitAnd(b, 15)
            IN  CASE message = 144 -> Step(NoteOnRecvd(channel), None)
                  [] message = 128 -> Step(NoteOffRecvd(channel), None)
                  [] OTHER -> Step(st, None)
      [] st.tag = "NoteOnRecvd" -> Step(NoteOnNoteRecvd(st.channel, b), None)
      [] st.tag = "NoteOnNoteRecvd" ->
            Step(st, Some(note_on(Channel_from(st.channel), Note_from(st.note),
                                  Velocity_from(b))))
      [] st.tag = "NoteOffRecvd" -> Step(NoteOffNoteRecvd(st.channel, b), None)
      [] st.tag = "NoteOffNoteRecvd" ->
            Step(Empty, Some(note_off(Channel_from(st.channel), Note_from(st.note),
                                      Velocity_from(b))))

-----------------------------------------------------------------------------
(* Classification of the bytes and states, as the claims speak of them *)

\* The status high nibbles of parser.rs:50-73.
RecognizedMessages == {128, 144, 176, 192, 208, 224}

Recognized(b) == b >= 128 /\ (b \div 16) * 16 \in RecognizedMessages

Unrecognized(b) == b >= 128 /\ (b \div 16) * 16 \notin RecognizedMessages

IsData(b) == b < 128

\* The family a recognized status byte selects (its high nibble).
FamilyOf(b) ==
    CASE b \div 16 = 8 -> "NoteOff"
      [] b \div 16 = 9 -> "NoteOn"
      [] b \div 16 = 11 -> "ControlChange"
      [] b \div 16 = 12 -> "ProgramChange"
      [] b \div 16 = 13 -> "ChannelPressure"
      [] b \div 16 = 14 -> "PitchBend"

TwoByteFamilies == {"NoteOff", "NoteOn", "ControlChange", "PitchBend"}

OneByteFamilies == {"ProgramChange", "ChannelPressure"}

\* The state that awaits the first data byte of the family and channel of
\* the recognized status byte b.
FirstByteState(b) == [tag |-> FamilyOf(b) \o "Recvd", channel |-> b % 16]

\* What an event carries: its family, its channel and its data bytes in the
\* order they were received.
EventFamily(e) == e.type

EventChannel(e) == Channel_into(e.channel)

EventData(e) ==
    CASE e.type \in {"NoteOn", "NoteOff"} -> << Note_into(e.note), Velocity_into(e.velocity) >>
      [] e.type = "ControlChange" -> << e.control.f0, e.value.f0 >>
      [] e.type = "ProgramChange" -> << e.program.f0 >>
      [] e.type = "ChannelPressure" -> << e.value.f0 >>
      [] e.type = "PitchBend" -> << e.value.f0 % 128, e.value.f0 \div 128 >>

\* e is the event of the family and channel of status byte b with data bytes d.
EventOf(e, b, d) ==
    /\ EventFamily(e) = FamilyOf(b)
    /\ EventChannel(e) = b % 16
    /\ EventData(e) = d

AwaitingSecondTags ==
    {"NoteOnNoteRecvd", "NoteOffNoteRecvd", "ControlChangeControlRecvd",
     "PitchBendFirstByteRecvd"}

SingleByteTags == {"ProgramChangeRecvd", "ChannelPressureRecvd"}

\* The values of MidiParserState with any channel 0..15 and with a data
\* byte of the model stored: every state the model reaches is one of them.
ParserStates ==
    {Idle}
    \cup {NoteOnRecvd(c) : c \in 0 .. 15}
    \cup {NoteOffRecvd(c) : c \in 0 .. 15}
    \cup {ControlChangeRecvd(c) : c \in 0 .. 15}
    \cup {ProgramChangeRecvd(c) : c \in 0 .. 15}
    \cup {ChannelPressureRecvd(c) : c \in 0 .. 15}
    \cup {PitchBendRecvd(c) : c \in 0 .. 15}
    \cup {NoteOnNoteRecvd(c, d) : c \in 0 .. 15, d \in DataBytes}
    \cup {NoteOffNoteRecvd(c, d) : c \in 0 .. 15, d \in DataBytes}
    \cup {ControlChangeControlRecvd(c, d) : c \in 0 .. 15, d \in DataBytes}
    \cup {PitchBendFirstByteRecvd(c, d) : c \in 0 .. 15, d \in DataBytes}

\* The first data byte a state stores, if it stores one.
StoredBytes(st) ==
    CASE st.tag \in {"NoteOnNoteRecvd", "NoteOffNoteRecvd"} -> {st.note}
      [] st.tag = "ControlChangeControlRecvd" -> {st.control}
      [] st.tag = "PitchBendFirstByteRecvd" -> {st.byte1}
      [] OTHER -> {}

\* The number of data bytes in a sequence of bytes.
DataCount(s) == Cardinality({i \in 1 .. Len(s) : IsData(s[i])})

-----------------------------------------------------------------------------
(* The parser: MidiParser::new and the calls of parse_byte *)

\* MidiParser::new() (parser.rs:36-40), nothing fed yet.
ParserInit ==
    /\ state = Idle
    /\ ret = None
    /\ byte = 0
    /\ prev = Idle
    /\ stream = << >>
    /\ events = << >>
    /\ status_first = FALSE
    /\ interrupted = FALSE
    /\ noisy = FALSE
    /\ noise_mid = FALSE
    /\ shadow = Idle
    /\ shadow_events = << >>
    /\ fresh = Idle
    /\ fresh_events = << >>

ValueInit ==
    /\ raw = 0
    /\ wrapped = Note_from(0)
    /\ unwrapped = 0

\* midi.rs: MidiParser::new() (midi.rs:96-100), nothing fed yet.
MidiInit ==
    /\ m_state = Empty
    /\ m_ret = None
    /\ m_byte = 0
    /\ m_prev = Empty
    /\ m_prev_ret = None
    /\ m_msg = << >>

\* is_status_byte(0x00u8), one of the calls of the test at parser.rs:164-170.
FunctionInit ==
    /\ f_byte = 0
    /\ f_result = [function |-> "is_status_byte", value |-> is_status_byte(0)]

Init == ParserInit /\ ValueInit /\ MidiInit /\ FunctionInit

\* parse_byte has been called at least once.
Called == stream # << >> \/ noisy

\* A recognized status byte has been fed: it heads `stream`.
StatusSeen == stream # << >> /\ Recognized(stream[1])

\* The data bytes fed since the most recent recognized status byte.
DataSince == SubSeq(stream, 2, Len(stream))

\* One call parser.parse_byte(b), with the history it leaves.
ParseByte(b) ==
    \E r \in {parse_byte(state, b)}, s \in {parse_byte(shadow, b)},
       f \in {parse_byte(IF Recognized(b) THEN Idle ELSE fresh, b)} :
        /\ IsData(b) => DataCount(stream) < MaxRun
        /\ state' = r.state
        /\ ret' = r.ret
        /\ byte' = b
        /\ prev' = state
        /\ fresh' = f.state
        /\ fresh_events' = (IF Recognized(b) THEN << >> ELSE fresh_events) \o f.ret
        /\ IF Recognized(b)
           THEN /\ stream' = << b >>
                /\ events' = r.ret
                /\ status_first' = (stream = << >> /\ ~noisy)
                /\ interrupted' = (state.tag \in AwaitingSecondTags)
                /\ noisy' = FALSE
                /\ noise_mid' = FALSE
                /\ shadow' = s.state
                /\ shadow_events' = s.ret
           ELSE IF Unrecognized(b)
           THEN /\ stream' = stream
                /\ events' = events \o r.ret
                /\ status_first' = status_first
                /\ interrupted' = interrupted
                /\ noisy' = TRUE
                /\ noise_mid' = (noise_mid \/ state.tag \in AwaitingSecondTags)
                /\ shadow' = shadow
                /\ shadow_events' = shadow_events
           ELSE /\ stream' = Append(stream, b)
                /\ events' = events \o r.ret
                /\ status_first' = status_first
                /\ interrupted' = interrupted
                /\ noisy' = noisy
                /\ noise_mid' = noise_mid
                /\ shadow' = s.state
                /\ shadow_events' = shadow_events \o s.ret
        /\ UNCHANGED << value_vars, midi_vars, function_vars >>

Feed == \E b \in Bytes : ParseByte(b)

Next == Feed

Spec == Init /\ [][Next]_vars

-----------------------------------------------------------------------------
(* The value types of midi.rs: a value is made from a byte with From<u8> and *)
(* turned back into a byte with Into<u8>.                                    *)

\* let n: Note = b.into(); let back: u8 = n.into();
NoteConvert(b) ==
    /\ raw' = b
    /\ wrapped' = Note_from(b)
    /\ unwrapped' = Note_into(Note_from(b))
    /\ UNCHANGED << parser_vars, midi_vars, function_vars >>

\* let c: Channel = b.into(); let back: u8 = c.into();
ChannelConvert(b) ==
    /\ raw' = b
    /\ wrapped' = Channel_from(b)
    /\ unwrapped' = Channel_into(Channel_from(b))
    /\ UNCHANGED << parser_vars, midi_vars, function_vars >>

\* let v: Velocity = b.into(); let back: u8 = v.into();
VelocityConvert(b) ==
    /\ raw' = b
    /\ wrapped' = Velocity_from(b)
    /\ unwrapped' = Velocity_into(Velocity_from(b))
    /\ UNCHANGED << parser_vars, midi_vars, function_vars >>

ValueNext ==
    \/ \E b \in U8 : NoteConvert(b)
    \/ \E b \in U8 : ChannelConvert(b)
    \/ \E b \in U8 : VelocityConvert(b)

ValueSpec == Init /\ [][ValueNext]_vars

-----------------------------------------------------------------------------
(* midi.rs: the calls of its MidiParser::parse_byte *)

\* One call parser.parse_byte(b) of the parser of midi.rs, with the history
\* it leaves.
MidiParseByte(b) ==
    \E r \in {midi_parse_byte(m_state, b)} :
        /\ m_state' = r.state
        /\ m_ret' = r.ret
        /\ m_byte' = b
        /\ m_prev' = m_state
        /\ m_prev_ret' = m_ret
        /\ m_msg' = IF m_state = Empty /\ r.state = Empty /\ r.ret = None
                    THEN IF m_ret # None THEN << >> ELSE m_msg
                    ELSE IF m_ret # None THEN << b >> ELSE Append(m_msg, b)
        /\ UNCHANGED << parser_vars, value_vars, function_vars >>

MidiNext == \E b \in Bytes : MidiParseByte(b)

MidiSpec == Init /\ [][MidiNext]_vars

-----------------------------------------------------------------------------
(* parser.rs: the free functions, applied to a byte *)

\* let r = is_status_byte(b);
ClassifyByte(b) ==
    /\ f_byte' = b
    /\ f_result' = [function |-> "is_status_byte", value |-> is_status_byte(b)]
    /\ UNCHANGED << parser_vars, value_vars, midi_vars >>

\* let (message, channel) = split_message_and_channel(b);
SplitByte(b) ==
    /\ f_byte' = b
    /\ f_result' = [function |-> "split_message_and_channel",
                    value |-> split_message_and_channel(b)]
    /\ UNCHANGED << parser_vars, value_vars, midi_vars >>

FunctionNext ==
    \/ \E b \in U8 : ClassifyByte(b)
    \/ \E b \in U8 : SplitByte(b)

FunctionSpec == Init /\ [][FunctionNext]_vars

-----------------------------------------------------------------------------
(* Claims *)

\* The byte b completes a message when fed in state st: a data byte while
\* the second data byte of a two-data-byte family, or the single data byte of
\* ProgramChange or ChannelPressure, is awaited.
Completes(st, b) ==
    IsData(b) /\ st.tag \in AwaitingSecondTags \cup SingleByteTags

\* The byte b is absorbed without effect in state st: an unrecognized status
\* byte, a data byte while Idle, or a recognized status byte of the family
\* and channel whose first data byte is already awaited.
Absorbed(st, b) ==
    \/ Unrecognized(b)
    \/ IsData(b) /\ st = Idle
    \/ Recognized(b) /\ st = FirstByteState(b)

C1_AllBytes ==
    \A st \in ParserStates, b \in U8 :
        \E r \in {parse_byte(st, b)} :
            /\ (r.ret # None) <=> Completes(st, b)
            /\ r.ret = None => ((r.state = st) <=> Absorbed(st, b))

C2_ThreeByteMessage ==
    (status_first /\ ~noisy /\ FamilyOf(stream[1]) \in TwoByteFamilies) =>
        /\ Len(stream) \in {1, 2} => ret = None /\ events = << >>
        /\ Len(stream) = 3 =>
            /\ ret # None
            /\ events = ret
            /\ EventOf(ret[1], stream[1], << stream[2], stream[3] >>)
            /\ EventChannel(ret[1]) = BitAnd(stream[1], 15)

\* C2 witness: a fresh parser has been fed a PitchBend message on channel 15
\* with two different data bytes and has returned its event.
C2_Witness ==
    /\ status_first
    /\ ~noisy
    /\ stream = << 239, 127, 64 >>
    /\ ret # None

\* C3: after a recognized status byte of a two-data-byte family on channel c
\* followed only by data bytes d1..dn, an event is returned on exactly the
\* even-numbered data bytes; the k-th event has that family and channel and
\* carries (d(2k-1), d(2k)), so floor(n/2) events have been returned.
C3_RunningStatusTwoBytes ==
    (StatusSeen /\ ~noisy /\ FamilyOf(stream[1]) \in TwoByteFamilies) =>
        \E n \in {Len(DataSince)} :
            /\ (ret # None) <=> (n > 0 /\ n % 2 = 0)
            /\ Len(events) = n \div 2
            /\ \A k \in 1 .. Len(events) :
                EventOf(events[k], stream[1],
                        << DataSince[2 * k - 1], DataSince[2 * k] >>)
            /\ ret # None => ret[1] = events[Len(events)]

\* C3 witness: two different events of one family have been returned after a
\* single status byte, the second under running status.
C3_Witness ==
    /\ StatusSeen
    /\ ~noisy
    /\ FamilyOf(stream[1]) \in TwoByteFamilies
    /\ Len(DataSince) = 4
    /\ Len(events) = 2
    /\ events[1] # events[2]

\* C4: after a recognized status byte of ProgramChange or ChannelPressure on
\* channel c, every following data byte d returns exactly one event of that
\* family with channel c and value d, and leaves the parser state as it was
\* (awaiting the first byte of that family on channel c): n data bytes give
\* n events.
C4_RunningStatusOneByte ==
    (StatusSeen /\ FamilyOf(stream[1]) \in OneByteFamilies) =>
        /\ state = FirstByteState(stream[1])
        /\ Len(events) = Len(DataSince)
        /\ \A k \in 1 .. Len(events) :
            EventOf(events[k], stream[1], << DataSince[k] >>)
        /\ IsData(byte) => (ret # None /\ ret[1] = events[Len(events)] /\ state = prev)

\* C4 witness: three data bytes after one ChannelPressure status byte have
\* given three events.
C4_Witness ==
    /\ StatusSeen
    /\ FamilyOf(stream[1]) = "ChannelPressure"
    /\ Len(events) = 3
    /\ events[1] # events[3]

\* C5, for every state of ParserStates and every recognized status byte: the
\* call returns None and leaves the awaiting-first-byte state of the byte's
\* family and channel, whatever the state held.
C5_AllBytes ==
    \A st \in ParserStates, b \in U8 :
        Recognized(b) => parse_byte(st, b) = Step(FirstByteState(b), None)

\* C5: in every reachable state a recognized status byte returns None and
\* moves the parser to the awaiting-first-byte state of the new family with
\* channel = low nibble; a message left incomplete is discarded: every event
\* returned afterwards is made only of data bytes received after that status
\* byte.
C5_Interruption ==
    /\ (Called /\ Recognized(byte)) =>
        /\ ret = None
        /\ state = FirstByteState(byte)
        /\ state.channel = BitAnd(byte, 15)
    /\ ret # None =>
        /\ StatusSeen
        /\ \E d \in {EventData(ret[1])} :
            /\ Len(d) <= Len(DataSince)
            /\ d = SubSeq(DataSince, Len(DataSince) - Len(d) + 1, Len(DataSince))
    /\ state \in ParserStates
    /\ C5_AllBytes

\* C5 witness: a NoteOff status byte on channel 15 interrupted a message
\* whose first data byte had been received, and the NoteOff completed
\* afterwards has been returned.
C5_Witness ==
    /\ interrupted
    /\ stream = << 143, 0, 127 >>
    /\ ret # None
    /\ events = ret
    /\ state = NoteOffRecvd(15)

\* C6, for every state of ParserStates and every byte 0..255: the
\* unrecognized status bytes are 0xA0..0xAF and 0xF0..0xFF, and fed one of
\* them the call returns None and leaves the state as it was.
C6_AllBytes ==
    \A st \in ParserStates, b \in U8 :
        /\ Unrecognized(b) <=> b \in (160 .. 175) \cup (240 .. 255)
        /\ Unrecognized(b) => parse_byte(st, b) = Step(st, None)

\* C6: in every reachable state an unrecognized status byte (0xA0..0xAF,
\* 0xF0..0xFF) returns None and leaves the parser state, with any channel and
\* first data byte it stores, unchanged.
C6_UnrecognizedStatusIgnored ==
    /\ (Called /\ Unrecognized(byte)) => (ret = None /\ state = prev)
    /\ state \in ParserStates
    /\ C6_AllBytes

\* C6 witness: an unrecognized status byte arrived while a second data byte
\* was awaited, and the state still stores the channel and first data byte.
C6_Witness ==
    /\ Called
    /\ byte = 255
    /\ prev = ControlChangeControlRecvd(15, 127)
    /\ state = prev

\* C7: the parser fed the stream with unrecognized status bytes inserted at
\* arbitrary positions and the parser fed the stream without them are in the
\* same state and have returned the same events; on a byte that is not an
\* inserted one both return the same value, and on an inserted one the parser
\* returns None.
C7_RealTimeTransparency ==
    /\ state = shadow
    /\ events = shadow_events
    /\ (Called /\ Unrecognized(byte)) => ret = None

\* C7 witness: an unrecognized status byte was inserted between the two data
\* bytes of a message, whose event has now been returned.
C7_Witness ==
    /\ noise_mid
    /\ Len(stream) = 3
    /\ Len(events) = 1
    /\ ret = events
    /\ EventOf(ret[1], stream[1], << stream[2], stream[3] >>)

\* C8: a freshly constructed parser fed data bytes (top bit clear) returns
\* None and stays Idle; no event is returned before a recognized status byte
\* has been received (unrecognized status bytes do not count).
C8_IdleIgnoresData ==
    ~StatusSeen =>
        /\ state = Idle
        /\ ret = None
        /\ events = << >>

\* C8 witness: data bytes have been fed to a fresh parser, which is Idle.
C8_Witness ==
    /\ ~StatusSeen
    /\ ~noisy
    /\ Len(stream) >= 2
    /\ state = Idle

\* C9: the value of a returned PitchBend event is the 14-bit integer
\* first + 128 * second of the two data bytes received, in 0..16383; the
\* data bytes (0x00, 0x40) give the centre value 8192.
C9_PitchBendValue ==
    (ret # None /\ ret[1].type = "PitchBend") =>
        \E n \in {Len(stream)} :
            /\ n >= 3
            /\ ret[1].value.f0 = stream[n - 1] + 128 * stream[n]
            /\ ret[1].value.f0 \in 0 .. 16383
            /\ (stream[n - 1] = 0 /\ stream[n] = 64) => ret[1].value.f0 = 8192

\* C9 witness: the data bytes 0x00, 0x40 have given a PitchBend event with
\* the centre value.
C9_Witness ==
    /\ ret # None
    /\ ret[1].type = "PitchBend"
    /\ stream[Len(stream) - 1] = 0
    /\ stream[Len(stream)] = 64
    /\ ret[1].value.f0 = 8192

\* C10: a Note, Channel or Velocity made from any byte 0..255 holds exactly
\* that byte (no validation, no masking), and turned back into a byte it
\* gives the byte it was made from.
C10_ValueRoundTrip ==
    /\ wrapped.newtype \in {"Note", "Channel", "Velocity"}
    /\ wrapped.f0 = raw
    /\ unwrapped = raw

\* C10 witness: a Channel made from 255, far out of the 0..15 range of a
\* channel, and turned back into 255.
C10_Witness ==
    /\ wrapped.newtype = "Channel"
    /\ raw = 255
    /\ unwrapped = 255

\* C11: the parser of midi.rs returns an event only on the byte that
\* completes a message: every NoteOn or NoteOff returned is that of its own
\* consumed triple (status, note, velocity), and after an event is returned
\* the next byte never returns another event.
C11_EventPerTriple ==
    m_ret # None =>
        /\ m_prev_ret = None
        /\ Len(m_msg) = 3
        /\ m_ret[1].type = (IF m_msg[1] \div 16 = 9 THEN "NoteOn" ELSE "NoteOff")
        /\ EventChannel(m_ret[1]) = m_msg[1] % 16
        /\ EventData(m_ret[1]) = << m_msg[2], m_msg[3] >>

\* C11, the NoteOff half, which the code does keep: after a NoteOff is
\* returned the parser is Empty and the next byte returns nothing.
C11_NoteOffPerTriple ==
    /\ (m_ret # None /\ m_ret[1].type = "NoteOff") =>
        /\ m_state = Empty
        /\ m_prev_ret = None
        /\ Len(m_msg) = 3
        /\ EventData(m_ret[1]) = << m_msg[2], m_msg[3] >>
    /\ (m_prev_ret # None /\ m_prev_ret[1].type = "NoteOff") => m_ret = None

\* A state stores a channel in 0..15 and a first data byte in 0..127.
StateInRange(st) ==
    /\ st # Idle => st.channel \in 0 .. 15
    /\ StoredBytes(st) \subseteq 0 .. 127

\* An event has a channel in 0..15 and data fields in 0..127.
EventInRange(e) ==
    /\ EventChannel(e) \in 0 .. 15
    /\ \A i \in 1 .. Len(EventData(e)) : EventData(e)[i] \in 0 .. 127
    /\ e.type = "PitchBend" => e.value.f0 \in 0 .. 16383

\* C12, for every state of ParserStates and every byte 0..255: the state the
\* call leaves and the event it returns are in range.
C12_AllBytes ==
    \A st \in ParserStates, b \in U8 :
        \E r \in {parse_byte(st, b)} :
            /\ StateInRange(r.state)
            /\ r.ret # None =>
                /\ EventInRange(r.ret[1])
                /\ b \in 0 .. 127
                /\ StoredBytes(st) \subseteq 0 .. 127

\* C12: after any sequence of bytes every event returned has its channel in
\* 0..15 and every data field (both pitch-bend bytes included) in 0..127,
\* and the parser state stores a channel in 0..15 and a first data byte in
\* 0..127.
C12_FieldsInRange ==
    /\ StateInRange(state)
    /\ \A k \in 1 .. Len(events) : EventInRange(events[k])
    /\ ret # None =>
        /\ EventInRange(ret[1])
        /\ byte \in 0 .. 127
        /\ StoredBytes(prev) \subseteq 0 .. 127
    /\ state \in ParserStates
    /\ C12_AllBytes

\* C12 witness: an event on the highest channel with both data fields at
\* the highest value has been returned.
C12_Witness ==
    /\ ret # None
    /\ EventChannel(ret[1]) = 15
    /\ EventData(ret[1]) = << 127, 127 >>
    /\ state.channel = 15

\* C13: every event returned has the family given by the high nibble and
\* the channel given by the low nibble of the most recent recognized status
\* byte, and its data fields are the data bytes received last, all of them
\* after that status byte.
C13_EventFollowsLastStatus ==
    /\ ret # None =>
        /\ StatusSeen
        /\ EventFamily(ret[1]) = FamilyOf(stream[1])
        /\ EventChannel(ret[1]) = BitAnd(stream[1], 15)
        /\ \E d \in {EventData(ret[1])} :
            /\ Len(d) <= Len(DataSince)
            /\ d = SubSeq(DataSince, Len(DataSince) - Len(d) + 1, Len(DataSince))
    /\ \A k \in 1 .. Len(events) :
        /\ EventFamily(events[k]) = FamilyOf(stream[1])
        /\ EventChannel(events[k]) = stream[1] % 16
        /\ \A i \in 1 .. Len(EventData(events[k])) :
            \E j \in 1 .. Len(DataSince) : EventData(events[k])[i] = DataSince[j]

\* C13 witness: a ControlChange status byte on channel 15 overrode a message
\* in progress, and the two events returned since are ControlChange events
\* on channel 15.
C13_Witness ==
    /\ interrupted
    /\ stream[1] = 191
    /\ Len(events) = 2
    /\ ret # None
    /\ ret[1].type = "ControlChange"

\* C14, one step: fed a recognized status byte, every state of ParserStates
\* gives what the state of a fresh parser gives.
C14_AllBytes ==
    \A st \in ParserStates, b \in U8 :
        Recognized(b) => parse_byte(st, b) = parse_byte(Idle, b)

\* C14: the events returned from a recognized status byte onward depend only
\* on the bytes from that status byte onward: the parser, whatever state it
\* was in when that byte arrived, and a parser constructed just before that
\* byte, fed the same bytes since, have returned the same events and are in
\* the same state.  (Any two parsers agree with that third one, and so with
\* each other.)
C14_Resynchronisation ==
    /\ StatusSeen =>
        /\ state = fresh
        /\ events = fresh_events
    /\ state \in ParserStates
    /\ C14_AllBytes

\* C14 witness: the status byte arrived while the parser awaited a second
\* data byte (the fresh parser was Idle), and both have since returned the
\* same two events, with unrecognized status bytes in the stream.
C14_Witness ==
    /\ interrupted
    /\ noisy
    /\ Len(events) = 2
    /\ events = fresh_events
    /\ state = fresh

\* The state that awaits the first data byte of the family and channel of
\* the event e.
FirstByteStateOf(e) == [tag |-> EventFamily(e) \o "Recvd", channel |-> EventChannel(e)]

\* C15, one step, for every state of ParserStates and every byte 0..255: no
\* byte brings a state other than Idle to Idle, and a call that returns an
\* event leaves the awaiting-first-byte state of the event's family and
\* channel.
C15_AllBytes ==
    \A st \in ParserStates, b \in U8 :
        \E r \in {parse_byte(st, b)} :
            /\ st # Idle => r.state # Idle
            /\ r.ret # None => r.state = FirstByteStateOf(r.ret[1])

\* C15: Idle is only the initial state: once a recognized status byte has
\* been consumed the parser is never Idle again, and after returning an
\* event the parser is in the awaiting-first-byte state of the event's
\* family and channel.
C15_IdleOnlyInitially ==
    /\ StatusSeen => state # Idle
    /\ (Called /\ prev # Idle) => state # Idle
    /\ ret # None => state = FirstByteStateOf(ret[1])
    /\ state \in ParserStates
    /\ C15_AllBytes

\* C15 witness: a ChannelPressure event has just been returned, after
\* others and after unrecognized status bytes, and the parser awaits the
\* first byte of ChannelPressure on channel 15.
C15_Witness ==
    /\ StatusSeen
    /\ noisy
    /\ Len(events) = MaxRun
    /\ ret # None
    /\ state = ChannelPressureRecvd(15)

\* The status bytes with an arm in parse_byte.
RecognizedBytes == {b \in U8 : Recognized(b)}

\* e is an event of one of the six families.
IsEvent(e) ==
    /\ e.type \in TwoByteFamilies \cup OneByteFamilies
    /\ Len(EventData(e)) = (IF e.type \in TwoByteFamilies THEN 2 ELSE 1)

\* C16, for every state of ParserStates: every byte 0..255 gives a state and
\* either None or an event, and every awaiting-first-byte state (six
\* families, sixteen channels) is one byte away.
C16_AllBytes ==
    \A st \in ParserStates :
        /\ \A b \in U8 :
            \E r \in {parse_byte(st, b)} :
                /\ r.state.tag \in {"Idle"} \cup {f \o "Recvd" : f \in TwoByteFamilies \cup OneByteFamilies}
                                  \cup AwaitingSecondTags
                /\ r.ret = None \/ (Len(r.ret) = 1 /\ IsEvent(r.ret[1]))
        /\ {parse_byte(st, b).state : b \in RecognizedBytes}
             = {FirstByteState(b) : b \in RecognizedBytes}
        /\ Cardinality({parse_byte(st, b).state : b \in RecognizedBytes}) = 96

\* C16: the parser has no terminal and no failure state: in every reachable
\* state every byte 0..255 is accepted and gives None or an event, and the
\* awaiting-first-byte state of any recognized family and channel is
\* reached by a single byte.
C16_NoTerminalState ==
    /\ state \in ParserStates
    /\ ret = None \/ (Len(ret) = 1 /\ IsEvent(ret[1]))
    /\ (Called /\ Recognized(byte)) => state = FirstByteState(byte)
    /\ C16_AllBytes

\* C16 witness: with the data bytes of the run used up and a second data
\* byte awaited, one status byte has brought the parser to the
\* awaiting-first-byte state of PitchBend on channel 15.
C16_Witness ==
    /\ interrupted
    /\ Len(stream) = 1
    /\ prev.tag \in AwaitingSecondTags
    /\ byte = 239
    /\ state = PitchBendRecvd(15)

\* C17: is_status_byte(b) is true exactly when the top bit of b is set, that
\* is when b >= 0x80, for all 256 byte values: every byte is either a status
\* byte or a data byte.
C17_StatusByteIffTopBit ==
    f_result.function = "is_status_byte" =>
        /\ f_result.value \in BOOLEAN
        /\ f_result.value <=> (f_byte >= 128)
        /\ f_result.value <=> ((f_byte \div 128) % 2 = 1)
        /\ f_result.value <=> ~IsData(f_byte)

\* C17 witness: 0x80, the lowest status byte, has been classified as one.
C17_Witness ==
    /\ f_result.function = "is_status_byte"
    /\ f_byte = 128
    /\ f_result.value = TRUE

\* C18: split_message_and_channel(b) is (b & 0xF0, b & 0x0F) for every byte:
\* the message part has a zero low nibble, the channel part is in 0..15 and
\* message + channel = b.
C18_SplitMessageAndChannel ==
    f_result.function = "split_message_and_channel" =>
        \E message \in {f_result.value[1]}, channel \in {f_result.value[2]} :
            /\ Len(f_result.value) = 2
            /\ message = f_byte - (f_byte % 16)
            /\ channel = f_byte % 16
            /\ message % 16 = 0
            /\ message \in 0 .. 240
            /\ channel \in 0 .. 15
            /\ message + channel = f_byte

\* C18 witness: 0x91 has been split into message 0x90 and channel 1.
C18_Witness ==
    /\ f_result.function = "split_message_and_channel"
    /\ f_byte = 145
    /\ f_result.value = << 144, 1 >>

=============================================================================
